---- MODULE Spec2Model ----
(***************************************************************************)
(* State-machine model of the light-curtain safety supervisor              *)
(* (src/raster.cpp): the IO registry, the system state NORMAL/LIMITED, the *)
(* per-robot bookkeeping, the monitor loop (io_monitor_thread), the        *)
(* actuation sequences (pause_robots / resume_robots) and the commands     *)
(* update_config / reset_speed, all serialized by io_mutex.                *)
(*                                                                         *)
(* Physical inputs and the robot controller are the environment: every     *)
(* read of an input (read_io) or of a run status                           *)
(* (NRC_Rbt_GetProgramRunStatus) returns a value chosen freely at the      *)
(* moment of the read.  What one critical section read, commanded and      *)
(* reported is kept in obs until the lock is released.                     *)
(***************************************************************************)
EXTENDS Integers, Sequences, FiniteSets, TLC

\* ------------------------------------------------------------------ bounds
\* Highest IO index of the model (the program has 2048).
MaxIndex == 2

IOIdx == 0..MaxIndex

\* Number of robots handled (the program handles 2: handled_robot_ids = {1, 2}).
NumRobots == 1

\* handled_robot_ids, in the order the sequences visit them
handled_robot_ids == [k \in 1..NumRobots |-> k]

Robots == {handled_robot_ids[k] : k \in 1..Len(handled_robot_ids)}

\* run status values of NRC_Rbt_GetProgramRunStatus: 0 stopped, 1 paused, 2 running
RunStatus == {0, 1, 2}

\* Job names NRC_GetCurrentOpenJob can give; "" when none could be retrieved.
JobReads == {"", "jobA"}

\* std::time(nullptr) at a latch: any non-zero time.
NowStamp == 1

\* The threads: the monitor thread and the request-dispatch threads.
Callers == {"c1", "c2"}
Threads == {"mon"} \cup Callers

VARIABLES
    io_list,                 \* io_list_indexed
    configured_limited_speed,
    current_system_state,    \* "NORMAL" | "LIMITED"
    limited_sent,            \* limited_state_message_sent_this_cycle
    normal_sent,             \* normal_state_message_sent_this_cycle
    robot_states,            \* robot_states
    file,                    \* the persisted configuration file
    io_mutex,                \* "free" or the thread holding it
    pc,                      \* position of every thread
    loc,                     \* locals of the command being run by a caller
    obs,                     \* reads / commands / reports of the current critical section
    pausedSinceNormal,       \* history: pause_robots ran since the state was last NORMAL
    retained,                \* history: per robot, the job a failed resume left recorded,
                             \* while every status read since found the robot paused
    lastUpdate,              \* history: the last accepted update_config request, as long
                             \* as no reset_speed ran since; quiet while no monitor
                             \* cycle ran since
    alarmed,                 \* history: the entries sampled in alarm, with no reset
                             \* condition met at a cycle of the monitor since
    svc,                     \* position of the thread running rasterSafetyService
    pausedByModule,          \* history: per robot, the last pause sequence found it
                             \* running and confirmed it paused, and no resume sequence
                             \* confirmed it running since
    thread_running,          \* thread_running, the flag the loop of the monitor tests
    calm                     \* environment: once on, the inputs keep the levels it
                             \* holds, under which no configured entry is in alarm

vars == <<io_list, configured_limited_speed, current_system_state, limited_sent,
          normal_sent, robot_states, file, io_mutex, pc, loc, obs, pausedSinceNormal,
          retained, lastUpdate, alarmed, svc, pausedByModule, thread_running, calm>>

\* ------------------------------------------------------------- data model
\* IOConfig() : an unconfigured slot
DefaultIO ==
    [io_index |-> -1, reset_io_index |-> 0, trigger_value |-> 1, description |-> "",
     already_triggered |-> FALSE, trigger_time |-> 0, is_configured |-> FALSE]

\* RobotState() followed by the status read of getRobotState
NewRobotState(status) ==
    [current_run_status |-> status, last_job_name |-> "",
     message_sent_limited |-> FALSE, message_sent_recovered |-> FALSE]

\* read_io: an invalid index reads false, otherwise the level the input has now
read_io(index, level) ==
    IF index < 0 \/ index > MaxIndex THEN FALSE ELSE level

\* current_io_value == (io.trigger_value == 1)
MeetsTrigger(io, value) == value = (io.trigger_value = 1)

Configured == {i \in IOIdx : io_list[i].is_configured}

AnyTriggered(list) == \E i \in IOIdx : list[i].is_configured /\ list[i].already_triggered

NoObs == [op |-> "none"]

\* No update_config request accepted yet, or a reset_speed ran after the last one.
NoUpdate == [op |-> "none"]

\* A reset_speed ran after an update_config made with the state LIMITED, and no
\* monitor cycle ran since that update_config.
ResetAfterUpdate == [op |-> "reset_after_update"]

\* retained after a pause sequence or a refresh read the statuses status[id]: a
\* robot read in another status than paused (1) is not a robot left paused.
StillPaused(ret, status) ==
    [id \in Robots |-> IF status[id] = 1 THEN ret[id] ELSE ""]

\* retained after a resume sequence that read rds on the robots rs: the job of a
\* robot whose resume was commanded and that reads paused after the wait.
RetainedAfterResume(rs, rds) ==
    [id \in Robots |->
        IF "new" \in DOMAIN rds[id] /\ rds[id].new = 1 THEN rs[id].last_job_name ELSE ""]

\* alarmed after a cycle of the monitor that read tv and rv over the table list: an
\* entry read in alarm is in; an entry read safe is out when it has no reset input
\* or its reset input was read true, and stays as it was otherwise.
AlarmedAfterCycle(list, al, tv, rv) ==
    {i \in IOIdx :
        /\ list[i].is_configured
        /\ IF MeetsTrigger(list[i], read_io(list[i].io_index, tv[i])) THEN TRUE
           ELSE IF list[i].reset_io_index > 0
                THEN i \in al /\ ~(i \in DOMAIN rv /\ rv[i])
                ELSE FALSE}

\* alarmed after resetSpeed read the levels lv: the entries read in alarm are added.
AlarmedAfterReads(list, al, lv) ==
    al \cup {i \in DOMAIN lv : /\ list[i].is_configured
                               /\ MeetsTrigger(list[i], read_io(list[i].io_index, lv[i]))}

\* ------------------------------------------------------- actuation engine
\* What one robot's pass through pause_robots can read: the refreshed status and,
\* when it is 2 (running), the open job name and the status after the wait.
PauseReads ==
    {[pre |-> p] : p \in {0, 1}}
        \cup {[pre |-> 2, job |-> j, new |-> n] : j \in JobReads, n \in RunStatus}

\* What one robot's pass through resume_robots can read: the refreshed status and,
\* when a resume command is issued, the status after the wait.
ResumeReads ==
    {[pre |-> p] : p \in RunStatus}
        \cup {[pre |-> 1, new |-> n] : n \in RunStatus}

PauseOne_KeepJob(st, id, rd) ==
    LET s1 == [st EXCEPT !.current_run_status = rd.pre] IN
    IF rd.pre = 2
    THEN [st |-> [s1 EXCEPT !.last_job_name = rd.job,
                            !.message_sent_limited = TRUE,
                            !.message_sent_recovered = FALSE],
          reports |-> << IF rd.new = 1 THEN <<1, "paused", id>>
                         ELSE <<3, "pause_failed", id>> >>,
          cmds |-> << <<"pause", id, "">> >>]
    ELSE [st |-> [s1 EXCEPT !.last_job_name = "",
                            !.message_sent_limited = TRUE,
                            !.message_sent_recovered = FALSE],
          reports |-> <<>>,
          cmds |-> <<>>]

PauseOne_Dedup(st, id, rd) ==
    LET s1 == [st EXCEPT !.current_run_status = rd.pre] IN
    IF rd.pre = 2
    THEN LET s2 == [s1 EXCEPT !.last_job_name = rd.job] IN
         IF ~s2.message_sent_limited
         THEN IF rd.new = 1
              THEN [st |-> [s2 EXCEPT !.message_sent_limited = TRUE,
                                      !.message_sent_recovered = FALSE],
                    reports |-> << <<1, "paused", id>> >>,
                    cmds |-> << <<"pause", id, "">> >>]
              ELSE [st |-> [s2 EXCEPT !.last_job_name = ""],
                    reports |-> << <<3, "pause_failed", id>> >>,
                    cmds |-> << <<"pause", id, "">> >>]
         ELSE [st |-> IF rd.new = 1 THEN s2 ELSE [s2 EXCEPT !.last_job_name = ""],
               reports |-> <<>>,
               cmds |-> << <<"pause", id, "">> >>]
    ELSE IF ~s1.message_sent_limited
         THEN [st |-> [s1 EXCEPT !.message_sent_limited = TRUE,
                                 !.message_sent_recovered = FALSE,
                                 !.last_job_name = ""],
               reports |-> << <<0, "no_pause_needed", id>> >>,
               cmds |-> <<>>]
         ELSE [st |-> [s1 EXCEPT !.last_job_name = ""], reports |-> <<>>, cmds |-> <<>>]

\* Body of the loop of pause_robots for robot id, with the values rd it reads.
PauseOne(st, id, rd) ==
    LET s1 == [st EXCEPT !.current_run_status = rd.pre] IN
    IF rd.pre = 2
    THEN LET s2 == [s1 EXCEPT !.last_job_name = rd.job] IN
         IF rd.new = 1
         THEN IF ~s2.message_sent_limited
              THEN [st |-> [s2 EXCEPT !.message_sent_limited = TRUE,
                                      !.message_sent_recovered = FALSE],
                    reports |-> << <<1, "paused", id>> >>,
                    cmds |-> << <<"pause", id, "">> >>]
              ELSE [st |-> s2, reports |-> <<>>, cmds |-> << <<"pause", id, "">> >>]
         ELSE [st |-> [s2 EXCEPT !.last_job_name = ""],
               reports |-> << <<3, "pause_failed", id>> >>,
               cmds |-> << <<"pause", id, "">> >>]
    ELSE IF ~s1.message_sent_limited
         THEN [st |-> [s1 EXCEPT !.message_sent_limited = TRUE,
                                 !.message_sent_recovered = FALSE,
                                 !.last_job_name = ""],
               reports |-> << <<0, "no_pause_needed", id>> >>,
               cmds |-> <<>>]
         ELSE [st |-> [s1 EXCEPT !.last_job_name = ""], reports |-> <<>>, cmds |-> <<>>]

ResumeOne_KeepLimited(st, id, rd) ==
    LET s1 == [st EXCEPT !.current_run_status = rd.pre] IN
    IF rd.pre = 1 /\ s1.last_job_name # ""
    THEN IF rd.new = 2
         THEN [st |-> [s1 EXCEPT !.message_sent_recovered = TRUE, !.last_job_name = ""],
               reports |-> IF s1.message_sent_recovered THEN <<>>
                           ELSE << <<0, "resumed", id>> >>,
               cmds |-> << <<"resume", id, s1.last_job_name>> >>]
         ELSE [st |-> s1,
               reports |-> << <<3, "resume_failed", id>> >>,
               cmds |-> << <<"resume", id, s1.last_job_name>> >>]
    ELSE [st |-> [s1 EXCEPT !.message_sent_recovered = TRUE,
                            !.last_job_name = IF rd.pre = 1 THEN @ ELSE ""],
          reports |-> IF s1.message_sent_recovered THEN <<>>
                      ELSE << <<0, IF rd.pre = 1 THEN "needs_manual_resume"
                                   ELSE "no_resume_needed", id>> >>,
          cmds |-> <<>>]

\* Body of the loop of resume_robots for robot id, with the values rd it reads.
\* A resume command is issued exactly when the robot is paused with a recorded job;
\* rd carries the status after the wait exactly then.
ResumeOne(st, id, rd) ==
    LET s1 == [st EXCEPT !.current_run_status = rd.pre] IN
    IF rd.pre = 1
    THEN IF s1.last_job_name # ""
         THEN IF rd.new = 2
              THEN IF ~s1.message_sent_recovered
                   THEN [st |-> [s1 EXCEPT !.message_sent_recovered = TRUE,
                                           !.message_sent_limited = FALSE,
                                           !.last_job_name = ""],
                         reports |-> << <<0, "resumed", id>> >>,
                         cmds |-> << <<"resume", id, s1.last_job_name>> >>]
                   ELSE [st |-> [s1 EXCEPT !.last_job_name = ""],
                         reports |-> <<>>,
                         cmds |-> << <<"resume", id, s1.last_job_name>> >>]
              ELSE [st |-> s1,
                    reports |-> << <<3, "resume_failed", id>> >>,
                    cmds |-> << <<"resume", id, s1.last_job_name>> >>]
         ELSE IF ~s1.message_sent_recovered
              THEN [st |-> [s1 EXCEPT !.message_sent_recovered = TRUE,
                                      !.message_sent_limited = FALSE],
                    reports |-> << <<0, "needs_manual_resume", id>> >>,
                    cmds |-> <<>>]
              ELSE [st |-> s1, reports |-> <<>>, cmds |-> <<>>]
    ELSE IF ~s1.message_sent_recovered
         THEN [st |-> [s1 EXCEPT !.message_sent_recovered = TRUE,
                                 !.message_sent_limited = FALSE,
                                 !.last_job_name = ""],
               reports |-> << <<0, "no_resume_needed", id>> >>,
               cmds |-> <<>>]
         ELSE [st |-> [s1 EXCEPT !.last_job_name = ""], reports |-> <<>>, cmds |-> <<>>]

\* The reads rd fit what resume_robots does for a robot in state st: the status
\* after the wait is read exactly when a command is issued.
ResumeReadsFit(st, rd) ==
    ("new" \in DOMAIN rd) <=> (rd.pre = 1 /\ st.last_job_name # "")

RECURSIVE Flatten(_, _, _)
Flatten(res, field, k) ==
    IF k > Len(handled_robot_ids) THEN <<>>
    ELSE res[handled_robot_ids[k]][field] \o Flatten(res, field, k + 1)

pause_robots_CommandAll(rs, rds) ==
    LET res == [id \in Robots |-> PauseOne(rs[id], id, rds[id])] IN
    [rs |-> [id \in Robots |-> res[id].st],
     reports |-> Flatten(res, "reports", 1),
     cmds |-> [k \in 1..Len(handled_robot_ids) |->
                 <<"pause", handled_robot_ids[k], "">>]]

\* pause_robots: every handled robot in turn; rds gives each robot's reads.
pause_robots(rs, rds) ==
    LET res == [id \in Robots |-> PauseOne(rs[id], id, rds[id])] IN
    [rs |-> [id \in Robots |-> res[id].st],
     reports |-> Flatten(res, "reports", 1),
     cmds |-> Flatten(res, "cmds", 1)]

\* resume_robots: every handled robot in turn; rds gives each robot's reads.
resume_robots(rs, rds) ==
    LET res == [id \in Robots |-> ResumeOne(rs[id], id, rds[id])] IN
    [rs |-> [id \in Robots |-> res[id].st],
     reports |-> Flatten(res, "reports", 1),
     cmds |-> Flatten(res, "cmds", 1)]

\* ------------------------------------------------- configuration store
\* The logical content save_to_file writes: the configured entries and the speed.
FileOf(list, speed) ==
    [io_config |-> {[io_index |-> list[i].io_index,
                     reset_io_index |-> list[i].reset_io_index,
                     trigger_value |-> list[i].trigger_value,
                     description |-> list[i].description] :
                        i \in {j \in IOIdx : list[j].is_configured}},
     limited_speed |-> speed]

\* One entry of a request's config_data (or of a vector given to updateIOConfig).
Item(idx, reset, trig, desc) ==
    [io_index |-> idx, reset_io_index |-> reset, trigger_value |-> trig, description |-> desc]

ParseConfigData_Raw(items) == items

ParseConfigData_DropReset(items) ==
    [k \in 1..Len(items) |-> [items[k] EXCEPT !.reset_io_index = 0]]

\* rasterSafetyControl, update_config: the items kept and normalised before the call
\* of updateIOConfig (an out-of-range io_index is skipped, an out-of-range reset index
\* becomes 0, a trigger value other than 0/1 becomes 1).
RECURSIVE ParseConfigData(_)
ParseConfigData(items) ==
    IF items = <<>> THEN <<>>
    ELSE LET it == Head(items)
             rest == ParseConfigData(Tail(items))
         IN IF it.io_index < 0 \/ it.io_index > MaxIndex THEN rest
            ELSE << [it EXCEPT
                       !.reset_io_index =
                           IF it.reset_io_index < 0 \/ it.reset_io_index > MaxIndex
                           THEN 0 ELSE it.reset_io_index,
                       !.trigger_value =
                           IF it.trigger_value # 0 /\ it.trigger_value # 1
                           THEN 1 ELSE it.trigger_value] >> \o rest

SpeedValid_Any(limited_speed) == TRUE

\* updateIOConfig: the range check of limited_speed.
SpeedValid(limited_speed) == ~(limited_speed < 0 \/ limited_speed > 100)

ClearTable_Keep(list) == list

ClearTable_KeepLatch(list) ==
    [i \in IOIdx |-> [DefaultIO EXCEPT !.already_triggered = list[i].already_triggered]]

\* updateIOConfig: io_list_indexed.assign(2049, IOConfig()), every slot unconfigured.
ClearTable(list) == [i \in IOIdx |-> DefaultIO]

ApplyConfig_Nothing(list, config) == list

\* updateIOConfig, the loop applying the vector config to a cleared table.
RECURSIVE ApplyConfig(_, _)
ApplyConfig(list, config) ==
    IF config = <<>> THEN list
    ELSE LET c == Head(config) IN
         IF c.io_index >= 0 /\ c.io_index <= MaxIndex
            /\ c.reset_io_index >= 0 /\ c.reset_io_index <= MaxIndex
         THEN ApplyConfig(
                [list EXCEPT ![c.io_index] =
                    [io_index |-> c.io_index,
                     reset_io_index |-> c.reset_io_index,
                     trigger_value |-> IF c.trigger_value # 0 /\ c.trigger_value # 1
                                       THEN 1 ELSE c.trigger_value,
                     description |-> c.description,
                     already_triggered |-> FALSE,
                     trigger_time |-> 0,
                     is_configured |-> TRUE]],
                Tail(config))
         ELSE ApplyConfig(list, Tail(config))

\* The requests the model submits: entries with and without a reset input, with
\* trigger level 1 and 0, and out-of-range fields.
ConfigRequests ==
    { << >>,
      << Item(1, 0, 1, "a") >>,
      << Item(1, 2, 1, "a") >>,
      << Item(1, 0, 1, "a"), Item(2, 0, 0, "b") >>,
      << Item(MaxIndex + 1, 0, 1, "x"), Item(2, MaxIndex + 1, 5, "b") >> }

\* limited_speed values the model submits: one in range, one out of range.
SpeedRequests == {40, 101}

\* ------------------------------------------------------------- the lock
CanLock_Always(t) == TRUE

\* std::lock_guard<std::mutex> lock(io_mutex): the thread gets the lock when it is free
CanLock(t) == io_mutex = "free"

\* ------------------------------------------------------------ evaluator
EvalEntry_Sticky(io, value, reset_value) ==
    IF MeetsTrigger(io, value)
    THEN IF ~io.already_triggered
         THEN [io EXCEPT !.already_triggered = TRUE, !.trigger_time = NowStamp]
         ELSE io
    ELSE io

EvalEntry_NoResetInput(io, value, reset_value) ==
    IF MeetsTrigger(io, value)
    THEN [io EXCEPT !.already_triggered = TRUE,
                    !.trigger_time = IF io.already_triggered THEN @ ELSE NowStamp]
    ELSE [io EXCEPT !.already_triggered = FALSE, !.trigger_time = 0]

\* io_monitor_thread, step 1 for one configured entry: value is the level read for
\* the entry, reset_value the level read for its reset input (used only when the
\* entry is latched, not in alarm and has a reset input).
EvalEntry(io, value, reset_value) ==
    IF MeetsTrigger(io, value)
    THEN IF ~io.already_triggered
         THEN [io EXCEPT !.already_triggered = TRUE, !.trigger_time = NowStamp]
         ELSE io
    ELSE IF io.already_triggered
         THEN LET meets_reset_condition ==
                      IF io.reset_io_index > 0 THEN reset_value = TRUE ELSE TRUE
              IN IF meets_reset_condition
                 THEN [io EXCEPT !.already_triggered = FALSE, !.trigger_time = 0]
                 ELSE io
         ELSE io

RequiredState_Physical(any_io_currently_meets_trigger, any_io_has_already_triggered_flag) ==
    IF any_io_currently_meets_trigger THEN "LIMITED" ELSE "NORMAL"

\* Step 2: LIMITED when the flag of any configured entry is set, else NORMAL; the
\* levels met in this cycle (any_io_currently_meets_trigger) do not count.
RequiredState(any_io_currently_meets_trigger, any_io_has_already_triggered_flag) ==
    IF any_io_has_already_triggered_flag THEN "LIMITED" ELSE "NORMAL"

LoopCondition_Forever == TRUE

\* io_monitor_thread: while (thread_running)
LoopCondition == thread_running

\* The entries of list whose reset input step 1 reads, given the trigger reads tv.
ResetRead(list, tv) ==
    {i \in IOIdx : /\ list[i].is_configured
                   /\ i \in DOMAIN tv
                   /\ ~MeetsTrigger(list[i], read_io(list[i].io_index, tv[i]))
                   /\ list[i].already_triggered
                   /\ list[i].reset_io_index > 0}

\* Steps 1 to 3 up to the store of the new system state, done with the lock held.
\* tv[i] is the level read for configured entry i, rv[i] the level read for the
\* reset input of entry i, for the entries whose reset input is read.
MonSample(tv, rv) ==
    /\ pc["mon"] = "sleep"
    /\ LoopCondition
    /\ CanLock("mon")
    /\ LET newlist == [i \in IOIdx |->
                         IF io_list[i].is_configured
                         THEN EvalEntry(io_list[i],
                                        read_io(io_list[i].io_index, tv[i]),
                                        read_io(io_list[i].reset_io_index,
                                                IF i \in DOMAIN rv THEN rv[i] ELSE FALSE))
                         ELSE io_list[i]]
           any_io_currently_meets_trigger ==
               \E i \in Configured :
                   MeetsTrigger(io_list[i], read_io(io_list[i].io_index, tv[i]))
           required_state == RequiredState(any_io_currently_meets_trigger,
                                           AnyTriggered(newlist))
           previous_state == current_system_state
       IN /\ io_list' = newlist
          /\ current_system_state' = required_state
          /\ pausedSinceNormal' =
                 IF required_state = "NORMAL" THEN FALSE ELSE pausedSinceNormal
          /\ pc' = [pc EXCEPT !["mon"] =
                       IF previous_state # required_state THEN "act" ELSE "refresh"]
          /\ obs' = [op |-> "cycle",
                     tread |-> tv,
                     rread |-> rv,
                     was |-> {i \in Configured : io_list[i].already_triggered},
                     after_update |->
                         IF lastUpdate = ResetAfterUpdate THEN "reset"
                         ELSE IF lastUpdate.op = "update" /\ lastUpdate.limited
                              THEN "clean" ELSE "no",
                     previous |-> previous_state,
                     required |-> required_state,
                     paused |-> pausedSinceNormal,
                     calls |-> <<>>,
                     reports |-> <<>>,
                     cmds |-> <<>>]
    /\ io_mutex' = "mon"
    /\ lastUpdate' = IF lastUpdate.op = "update"
                     THEN [lastUpdate EXCEPT !.quiet = FALSE, !.limited = FALSE]
                     ELSE NoUpdate
    /\ alarmed' = AlarmedAfterCycle(io_list, alarmed, tv, rv)
    /\ UNCHANGED <<configured_limited_speed, limited_sent, normal_sent,
                   robot_states, file, loc, retained, svc, pausedByModule, thread_running,
                   calm>>

\* How one robot's pass through a sequence ended, from what was read alone:
\* "none" no command, "ok" confirmed after the wait, "fail" not confirmed.
Attempt(rd, target) ==
    IF "new" \in DOMAIN rd THEN (IF rd.new = target THEN "ok" ELSE "fail") ELSE "none"

\* pausedByModule after a pause sequence that read rds.
PausedAfterPause(rds) == [id \in Robots |-> Attempt(rds[id], 1) = "ok"]

\* pausedByModule after a resume sequence that read rds.
PausedAfterResume(pbm, rds) ==
    [id \in Robots |-> IF Attempt(rds[id], 2) = "ok" THEN FALSE ELSE pbm[id]]

\* Step 3 after a change to LIMITED: the system-level alert, then pause_robots.
MonPause(rds) ==
    /\ pc["mon"] = "act"
    /\ obs.required = "LIMITED"
    /\ LET first == ~limited_sent
           rs0 == IF first
                  THEN [id \in Robots |->
                          [robot_states[id] EXCEPT !.message_sent_recovered = FALSE]]
                  ELSE robot_states
           r == pause_robots(rs0, rds)
       IN /\ robot_states' = r.rs
          /\ limited_sent' = TRUE
          /\ normal_sent' = IF first THEN FALSE ELSE normal_sent
          /\ obs' = [obs EXCEPT
                       !.calls = Append(@, "pause"),
                       !.reports = (IF first THEN << <<1, "sys_limited", 0>> >> ELSE <<>>)
                                       \o r.reports,
                       !.cmds = r.cmds] @@
                    [pre |-> [id \in Robots |-> rds[id].pre],
                     att |-> [id \in Robots |-> Attempt(rds[id], 1)],
                     before |-> robot_states]
    /\ pausedSinceNormal' = TRUE
    /\ retained' = StillPaused(retained, [id \in Robots |-> rds[id].pre])
    /\ pausedByModule' = PausedAfterPause(rds)
    /\ pc' = [pc EXCEPT !["mon"] = "refresh"]
    /\ UNCHANGED <<io_list, configured_limited_speed, current_system_state, file,
                   io_mutex, loc, lastUpdate, alarmed, svc, thread_running, calm>>

\* Step 3 after a change to NORMAL: the system-level notice, then resume_robots.
MonResume(rds) ==
    /\ pc["mon"] = "act"
    /\ obs.required = "NORMAL"
    /\ LET first == ~normal_sent
           rs0 == IF first
                  THEN [id \in Robots |->
                          [robot_states[id] EXCEPT !.message_sent_limited = FALSE]]
                  ELSE robot_states
           r == resume_robots(rs0, rds)
       IN /\ \A id \in Robots : ResumeReadsFit(rs0[id], rds[id])
          /\ robot_states' = r.rs
          /\ normal_sent' = TRUE
          /\ limited_sent' = IF first THEN FALSE ELSE limited_sent
          /\ obs' = [obs EXCEPT
                       !.calls = Append(@, "resume"),
                       !.reports = (IF first THEN << <<0, "sys_normal", 0>> >> ELSE <<>>)
                                       \o r.reports,
                       !.cmds = r.cmds] @@
                    [pre |-> [id \in Robots |-> rds[id].pre],
                     att |-> [id \in Robots |-> Attempt(rds[id], 2)],
                     before |-> robot_states,
                     owed |-> retained]
          /\ retained' = RetainedAfterResume(rs0, rds)
    /\ pausedByModule' = PausedAfterResume(pausedByModule, rds)
    /\ pc' = [pc EXCEPT !["mon"] = "refresh"]
    /\ UNCHANGED <<io_list, configured_limited_speed, current_system_state, file,
                   io_mutex, loc, pausedSinceNormal, lastUpdate, alarmed, svc,
                   thread_running, calm>>

MonFinish_NewEntries(status) ==
    /\ pc["mon"] = "refresh"
    /\ robot_states' = [id \in Robots |-> NewRobotState(status[id])]
    /\ io_mutex' = "free"
    /\ obs' = NoObs
    /\ pc' = [pc EXCEPT !["mon"] = "sleep"]
    /\ retained' = StillPaused(retained, status)
    /\ UNCHANGED <<io_list, configured_limited_speed, current_system_state,
                   limited_sent, normal_sent, file, loc, pausedSinceNormal, lastUpdate,
                   alarmed, svc, pausedByModule, thread_running, calm>>

\* Step 4 (the run status of every robot is read again), the end of the lock scope
\* and the sleep of the loop.
MonFinish(status) ==
    /\ pc["mon"] = "refresh"
    /\ robot_states' = [id \in Robots |->
                          [robot_states[id] EXCEPT !.current_run_status = status[id]]]
    /\ io_mutex' = "free"
    /\ obs' = NoObs
    /\ pc' = [pc EXCEPT !["mon"] = "sleep"]
    /\ retained' = StillPaused(retained, status)
    /\ UNCHANGED <<io_list, configured_limited_speed, current_system_state,
                   limited_sent, normal_sent, file, loc, pausedSinceNormal, lastUpdate,
                   alarmed, svc, pausedByModule, thread_running, calm>>

\* ------------------------------------------------------ command handler
Idle == [op |-> "none"]

\* update_config: rasterSafetyControl parses the request and calls updateIOConfig,
\* which holds the lock for its whole body; saved is the outcome of save_to_file.
UpdateConfig(t, req, limited_speed, saved) ==
    /\ pc[t] = "idle"
    /\ CanLock(t)
    /\ io_mutex' = t
    /\ pc' = [pc EXCEPT ![t] = "uc_ret"]
    /\ obs' = [op |-> "update", req |-> req, limited_speed |-> limited_speed,
               was |-> {i \in Configured : io_list[i].already_triggered}]
    /\ IF ~SpeedValid(limited_speed)
       THEN /\ loc' = [loc EXCEPT ![t] = [op |-> "update_config", ret |-> FALSE]]
            /\ UNCHANGED <<io_list, configured_limited_speed, file, lastUpdate, alarmed>>
       ELSE LET newlist == ApplyConfig(ClearTable(io_list), ParseConfigData(req))
            IN /\ configured_limited_speed' = limited_speed
               /\ io_list' = newlist
               /\ file' = IF saved THEN FileOf(newlist, limited_speed) ELSE file
               /\ loc' = [loc EXCEPT ![t] = [op |-> "update_config", ret |-> saved]]
               /\ lastUpdate' = [op |-> "update", req |-> req,
                                 limited_speed |-> limited_speed,
                                 quiet |-> TRUE,
                                 limited |-> current_system_state = "LIMITED"]
               /\ alarmed' = {}
    /\ UNCHANGED <<current_system_state, limited_sent, normal_sent, robot_states,
                   pausedSinceNormal, retained, svc, pausedByModule, thread_running, calm>>

UpdateReturn_ForcesNormal(t) ==
    /\ pc[t] = "uc_ret"
    /\ io_mutex' = "free"
    /\ obs' = NoObs
    /\ pc' = [pc EXCEPT ![t] = "idle"]
    /\ loc' = [loc EXCEPT ![t] = Idle]
    /\ current_system_state' =
           IF AnyTriggered(io_list) THEN current_system_state ELSE "NORMAL"
    /\ UNCHANGED <<io_list, configured_limited_speed,
                   limited_sent, normal_sent, robot_states, file, pausedSinceNormal,
                   retained, lastUpdate, alarmed, svc, pausedByModule, thread_running,
                   calm>>

\* updateIOConfig returns (the lock is released) and the response is sent.
UpdateReturn(t) ==
    /\ pc[t] = "uc_ret"
    /\ io_mutex' = "free"
    /\ obs' = NoObs
    /\ pc' = [pc EXCEPT ![t] = "idle"]
    /\ loc' = [loc EXCEPT ![t] = Idle]
    /\ UNCHANGED <<io_list, configured_limited_speed, current_system_state,
                   limited_sent, normal_sent, robot_states, file, pausedSinceNormal,
                   retained, lastUpdate, alarmed, svc, pausedByModule, thread_running,
                   calm>>

StillTriggered_FirstConfigured(list, sv) ==
    LET alarm == {i \in IOIdx : /\ list[i].is_configured
                                /\ MeetsTrigger(list[i], read_io(list[i].io_index, sv[i]))}
        conf == {i \in IOIdx : list[i].is_configured}
    IN IF alarm = {} THEN -1 ELSE CHOOSE i \in conf : \A j \in conf : i <= j

\* resetSpeed, step 2: the index of the first configured entry (in table order) whose
\* level sv[i] meets its trigger condition, -1 when there is none.
StillTriggered(list, sv) ==
    LET alarm == {i \in IOIdx : /\ list[i].is_configured
                                /\ MeetsTrigger(list[i], read_io(list[i].io_index, sv[i]))}
    IN IF alarm = {} THEN -1 ELSE CHOOSE i \in alarm : \A j \in alarm : i <= j

ClearLatches_None(list) == list

\* resetSpeed, step 1: the latch of every configured entry is cleared.
ClearLatches(list) ==
    [i \in IOIdx |->
        IF list[i].is_configured /\ list[i].already_triggered
        THEN [list[i] EXCEPT !.already_triggered = FALSE, !.trigger_time = 0]
        ELSE list[i]]

Relatch_None(list, lv) == list

\* resetSpeed, step 4: every configured entry is read again (lv) and latched when it
\* is in alarm and not latched.
Relatch(list, lv) ==
    [i \in IOIdx |->
        IF /\ list[i].is_configured
           /\ MeetsTrigger(list[i], read_io(list[i].io_index, lv[i]))
           /\ ~list[i].already_triggered
        THEN [list[i] EXCEPT !.already_triggered = TRUE, !.trigger_time = NowStamp]
        ELSE list[i]]

\* resetSpeed, steps 1 and 2: the latches are cleared, then the inputs are sampled
\* until one is found in alarm.
ResetSample(t, sv) ==
    /\ pc[t] = "idle"
    /\ CanLock(t)
    /\ io_mutex' = t
    /\ LET cleared == ClearLatches(io_list)
           still == StillTriggered(cleared, sv)
       IN /\ io_list' = cleared
          /\ loc' = [loc EXCEPT ![t] =
                        [op |-> "reset_speed",
                         was_limited |-> current_system_state = "LIMITED",
                         any_io_currently_meets_trigger |-> still # -1,
                         still_triggered_io_index |-> still]]
          /\ obs' = [op |-> "reset",
                     sread |-> [i \in {j \in Configured : still = -1 \/ j <= still}
                                  |-> sv[i]],
                     was |-> {i \in Configured : io_list[i].already_triggered},
                     calls |-> <<>>,
                     reports |-> <<>>,
                     cmds |-> <<>>]
          /\ alarmed' = AlarmedAfterReads(cleared, alarmed,
                             [i \in {j \in Configured : still = -1 \/ j <= still}
                                |-> sv[i]])
    /\ pc' = [pc EXCEPT ![t] = "rs_chk"]
    /\ lastUpdate' = IF lastUpdate.op = "update" /\ lastUpdate.limited
                     THEN ResetAfterUpdate ELSE NoUpdate
    /\ UNCHANGED <<configured_limited_speed, current_system_state, limited_sent,
                   normal_sent, robot_states, file, pausedSinceNormal, retained, svc,
                   pausedByModule, thread_running, calm>>

\* resetSpeed, step 3 when the system was LIMITED: NORMAL is stored and
\* resume_robots runs inline.
ResetResume(t, rds) ==
    /\ pc[t] = "rs_chk"
    /\ ~loc[t].any_io_currently_meets_trigger
    /\ loc[t].was_limited /\ current_system_state = "LIMITED"
    /\ \A id \in Robots : ResumeReadsFit(robot_states[id], rds[id])
    /\ LET r == resume_robots(robot_states, rds)
       IN /\ robot_states' = r.rs
          /\ obs' = [obs EXCEPT !.calls = Append(@, "resume"), !.reports = r.reports,
                                !.cmds = r.cmds] @@
                    [pre |-> [id \in Robots |-> rds[id].pre],
                     att |-> [id \in Robots |-> Attempt(rds[id], 2)],
                     before |-> robot_states,
                     owed |-> retained]
          /\ retained' = RetainedAfterResume(robot_states, rds)
    /\ pausedByModule' = PausedAfterResume(pausedByModule, rds)
    /\ current_system_state' = "NORMAL"
    /\ pausedSinceNormal' = FALSE
    /\ loc' = [loc EXCEPT ![t] = [op |-> "reset_speed", ret |-> TRUE,
                                  was_limited |-> loc[t].was_limited]]
    /\ pc' = [pc EXCEPT ![t] = "rs_ret"]
    /\ UNCHANGED <<io_list, configured_limited_speed, limited_sent, normal_sent,
                   file, io_mutex, lastUpdate, alarmed, svc, thread_running, calm>>

\* resetSpeed, step 3 when the system was already NORMAL: nothing more is done.
ResetNothing(t) ==
    /\ pc[t] = "rs_chk"
    /\ ~loc[t].any_io_currently_meets_trigger
    /\ ~(loc[t].was_limited /\ current_system_state = "LIMITED")
    /\ loc' = [loc EXCEPT ![t] = [op |-> "reset_speed", ret |-> TRUE,
                                  was_limited |-> loc[t].was_limited]]
    /\ pc' = [pc EXCEPT ![t] = "rs_ret"]
    /\ UNCHANGED <<io_list, configured_limited_speed, current_system_state,
                   limited_sent, normal_sent, robot_states, file, io_mutex, obs,
                   pausedSinceNormal, retained, lastUpdate, alarmed, svc, pausedByModule,
                   thread_running, calm>>

\* resetSpeed, step 4: the alert, then every configured entry is read again (lv) and
\* latched when in alarm, and LIMITED is stored when the state is not LIMITED.
ResetRelatch(t, lv) ==
    /\ pc[t] = "rs_chk"
    /\ loc[t].any_io_currently_meets_trigger
    /\ io_list' = Relatch(io_list, lv)
    /\ current_system_state' = "LIMITED"
    /\ obs' = [obs EXCEPT
                 !.reports = << <<2, "still_triggered", loc[t].still_triggered_io_index>> >>]
              @@ [lread |-> lv]
    /\ loc' = [loc EXCEPT ![t] = [op |-> "reset_speed", ret |-> FALSE,
                                  was_limited |-> loc[t].was_limited]]
    /\ pc' = [pc EXCEPT ![t] = "rs_ret"]
    /\ alarmed' = AlarmedAfterReads(io_list, alarmed, lv)
    /\ UNCHANGED <<configured_limited_speed, limited_sent, normal_sent, robot_states,
                   file, io_mutex, pausedSinceNormal, retained, lastUpdate, svc,
                   pausedByModule, thread_running, calm>>

ResetReturn_KeepLock(t) ==
    /\ pc[t] = "rs_ret"
    /\ obs' = NoObs
    /\ pc' = [pc EXCEPT ![t] = "rs_speed"]
    /\ loc' = [loc EXCEPT ![t] = [op |-> "reset_speed"]]
    /\ UNCHANGED <<io_list, configured_limited_speed, current_system_state,
                   limited_sent, normal_sent, robot_states, file, io_mutex,
                   pausedSinceNormal, retained, lastUpdate, alarmed, svc, pausedByModule,
                   thread_running, calm>>

\* resetSpeed returns: the lock is released.
ResetReturn(t) ==
    /\ pc[t] = "rs_ret"
    /\ io_mutex' = "free"
    /\ obs' = NoObs
    /\ pc' = [pc EXCEPT ![t] = "rs_speed"]
    /\ loc' = [loc EXCEPT ![t] = [op |-> "reset_speed"]]
    /\ UNCHANGED <<io_list, configured_limited_speed, current_system_state,
                   limited_sent, normal_sent, robot_states, file, pausedSinceNormal,
                   retained, lastUpdate, alarmed, svc, pausedByModule, thread_running,
                   calm>>

\* reset_speed, after resetSpeed: getCurrentLimitedSpeed takes and releases the lock,
\* then the response is sent.
ResetRespond(t) ==
    /\ pc[t] = "rs_speed"
    /\ CanLock(t)
    /\ pc' = [pc EXCEPT ![t] = "idle"]
    /\ loc' = [loc EXCEPT ![t] = Idle]
    /\ UNCHANGED <<io_list, configured_limited_speed, current_system_state,
                   limited_sent, normal_sent, robot_states, file, io_mutex, obs,
                   pausedSinceNormal, retained, lastUpdate, alarmed, svc, pausedByModule,
                   thread_running, calm>>

\* getTriggeredIOStates: the io_index of every configured entry whose flag is set
\* (the only field of the returned states that get_config uses).
getTriggeredIOStates(list) ==
    {list[i].io_index : i \in {j \in IOIdx : list[j].is_configured
                                              /\ list[j].already_triggered}}

\* get_config, the config_data array built from the table list: one item per
\* configured entry, is_triggered telling whether its index is among triggered_states.
ConfigData(list, triggered_states) ==
    {[io_index |-> list[i].io_index,
      trigger_value |-> list[i].trigger_value,
      reset_io_index |-> list[i].reset_io_index,
      description |-> list[i].description,
      is_triggered |-> list[i].io_index \in triggered_states] :
         i \in {j \in IOIdx : list[j].is_configured}}

\* get_config, first lock scope: getCurrentLimitedSpeed.
GetSpeed(t) ==
    /\ pc[t] = "idle"
    /\ CanLock(t)
    /\ loc' = [loc EXCEPT ![t] = [op |-> "get_config",
                                  limited_speed |-> configured_limited_speed]]
    /\ pc' = [pc EXCEPT ![t] = "gc_trig"]
    /\ UNCHANGED <<io_list, configured_limited_speed, current_system_state,
                   limited_sent, normal_sent, robot_states, file, io_mutex, obs,
                   pausedSinceNormal, retained, lastUpdate, alarmed, svc, pausedByModule,
                   thread_running, calm>>

\* get_config, second lock scope: getTriggeredIOStates.
GetTriggered(t) ==
    /\ pc[t] = "gc_trig"
    /\ CanLock(t)
    /\ loc' = [loc EXCEPT ![t] = [op |-> "get_config",
                                  limited_speed |-> loc[t].limited_speed,
                                  triggered_states |-> getTriggeredIOStates(io_list)]]
    /\ pc' = [pc EXCEPT ![t] = "gc_list"]
    /\ UNCHANGED <<io_list, configured_limited_speed, current_system_state,
                   limited_sent, normal_sent, robot_states, file, io_mutex, obs,
                   pausedSinceNormal, retained, lastUpdate, alarmed, svc, pausedByModule,
                   thread_running, calm>>

\* get_config, third lock scope: the configured entries are read and the response
\* is built.  list_speed and list_latched record, for the properties, the speed and
\* the latched entries of the table the entries were read from.
GetList(t) ==
    /\ pc[t] = "gc_list"
    /\ CanLock(t)
    /\ loc' = [loc EXCEPT ![t] =
                  [op |-> "get_config",
                   response |-> [status |-> TRUE,
                                 limited_speed |-> loc[t].limited_speed,
                                 config_data |-> ConfigData(io_list,
                                                            loc[t].triggered_states)],
                   list_speed |-> configured_limited_speed,
                   list_latched |-> getTriggeredIOStates(io_list)]]
    /\ pc' = [pc EXCEPT ![t] = "gc_resp"]
    /\ UNCHANGED <<io_list, configured_limited_speed, current_system_state,
                   limited_sent, normal_sent, robot_states, file, io_mutex, obs,
                   pausedSinceNormal, retained, lastUpdate, alarmed, svc, pausedByModule,
                   thread_running, calm>>

\* get_config: the response is sent.
GetRespond(t) ==
    /\ pc[t] = "gc_resp"
    /\ pc' = [pc EXCEPT ![t] = "idle"]
    /\ loc' = [loc EXCEPT ![t] = Idle]
    /\ UNCHANGED <<io_list, configured_limited_speed, current_system_state,
                   limited_sent, normal_sent, robot_states, file, io_mutex, obs,
                   pausedSinceNormal, retained, lastUpdate, alarmed, svc, pausedByModule,
                   thread_running, calm>>

\* ------------------------------------------------------- specification
\* The state after rasterSafetyService started with no configuration file: the
\* default configuration is loaded and saved, every robot's entry is created with
\* the status read at that moment, and the monitor thread is about to run.
Init ==
    /\ io_list = [i \in IOIdx |-> DefaultIO]
    /\ configured_limited_speed = 30
    /\ current_system_state = "NORMAL"
    /\ limited_sent = FALSE
    /\ normal_sent = FALSE
    /\ robot_states \in {[id \in Robots |-> NewRobotState(st[id])] :
                            st \in [Robots -> RunStatus]}
    /\ file = FileOf([i \in IOIdx |-> DefaultIO], 30)
    /\ io_mutex = "free"
    /\ pc = [t \in Threads |-> IF t = "mon" THEN "sleep" ELSE "idle"]
    /\ loc = [t \in Callers |-> Idle]
    /\ obs = NoObs
    /\ pausedSinceNormal = FALSE
    /\ retained = [id \in Robots |-> ""]
    /\ lastUpdate = NoUpdate
    /\ alarmed = {}
    /\ svc = "serving"
    /\ pausedByModule = [id \in Robots |-> FALSE]
    /\ thread_running = TRUE
    /\ calm = [on |-> FALSE]

Monitor ==
    \/ \E tv \in [Configured -> BOOLEAN] :
          \E rv \in [ResetRead(io_list, tv) -> BOOLEAN] : MonSample(tv, rv)
    \/ \E rds \in [Robots -> PauseReads] : MonPause(rds)
    \/ \E rds \in [Robots -> ResumeReads] : MonResume(rds)
    \/ \E status \in [Robots -> RunStatus] : MonFinish(status)

\* The commands one request-dispatch thread t can run.
Command(t) ==
    \/ \E req \in ConfigRequests, speed \in SpeedRequests, saved \in BOOLEAN :
          UpdateConfig(t, req, speed, saved)
    \/ UpdateReturn(t)
    \/ \E sv \in [Configured -> BOOLEAN] : ResetSample(t, sv)
    \/ \E rds \in [Robots -> ResumeReads] : ResetResume(t, rds)
    \/ ResetNothing(t)
    \/ \E lv \in [Configured -> BOOLEAN] : ResetRelatch(t, lv)
    \/ ResetReturn(t)
    \/ ResetRespond(t)

\* The get_config request run by a request-dispatch thread t.
Query(t) ==
    \/ GetSpeed(t)
    \/ GetTriggered(t)
    \/ GetList(t)
    \/ GetRespond(t)

\* The monitor thread and one request-dispatch thread.
Next == Monitor \/ Command("c1")

Spec == Init /\ [][Next]_vars

\* The monitor thread and two request-dispatch threads running commands concurrently.
NextConc == Monitor \/ \E t \in Callers : Command(t)

SpecConc == Init /\ [][NextConc]_vars

\* The monitor thread and one request-dispatch thread that also runs get_config.
NextQuery == Monitor \/ Command("c1") \/ Query("c1")

SpecQuery == Init /\ [][NextQuery]_vars

\* ------------------------------------------------------- service start
\* No configuration file exists.
NoFile == [missing |-> TRUE]

\* The configuration file exists and cannot be opened or parsed.
BadFile == [unparsable |-> TRUE]

\* The configuration files the service can find at its start: none, a damaged one,
\* one with an entry that has a reset input, and one written by hand with an
\* out-of-range io_index, an out-of-range reset index, a trigger value other than
\* 0/1 and an out-of-range speed.  A file holds one item per io_index.
StartFiles ==
    {NoFile, BadFile,
     [io_config |-> {Item(1, 2, 1, "a")}, limited_speed |-> 40],
     [io_config |-> {Item(MaxIndex + 1, 0, 1, "x"), Item(2, MaxIndex + 1, 5, "b"),
                     Item(1, 2, 0, "a")},
      limited_speed |-> 101]}

\* load_from_file, one item of io_config that has a valid io_index.
LoadItem(item) ==
    [io_index |-> item.io_index,
     reset_io_index |-> IF item.reset_io_index < 0 \/ item.reset_io_index > MaxIndex
                        THEN 0 ELSE item.reset_io_index,
     trigger_value |-> IF item.trigger_value # 0 /\ item.trigger_value # 1
                       THEN 1 ELSE item.trigger_value,
     description |-> item.description,
     already_triggered |-> FALSE,
     trigger_time |-> 0,
     is_configured |-> TRUE]

\* load_from_file with the table list and the speed in memory and the file f: a
\* missing file is created from what is in memory (saved tells whether that worked),
\* a damaged file leaves everything as it is, any other file replaces the table and
\* the speed.
load_from_file(list, speed, f, saved) ==
    IF "missing" \in DOMAIN f
    THEN [ret |-> saved, list |-> list, speed |-> speed,
          file |-> IF saved THEN FileOf(list, speed) ELSE f]
    ELSE IF "unparsable" \in DOMAIN f
    THEN [ret |-> FALSE, list |-> list, speed |-> speed, file |-> f]
    ELSE [ret |-> TRUE,
          list |-> [i \in IOIdx |->
                      IF \E item \in f.io_config : item.io_index = i
                      THEN LoadItem(CHOOSE item \in f.io_config : item.io_index = i)
                      ELSE DefaultIO],
          speed |-> IF f.limited_speed < 0 \/ f.limited_speed > 100
                    THEN 30 ELSE f.limited_speed,
          file |-> f]

\* rasterSafetyService, the first lock scope: load_from_file.  What was loaded stays
\* in obs until the monitor thread is started.
LoadConfig(saved) ==
    /\ svc = "load"
    /\ CanLock("svc")
    /\ LET r == load_from_file(io_list, configured_limited_speed, file, saved)
       IN /\ io_list' = r.list
          /\ configured_limited_speed' = r.speed
          /\ file' = r.file
          /\ obs' = [op |-> "load", file |-> file, ret |-> r.ret]
    /\ svc' = "robots"
    /\ UNCHANGED <<current_system_state, limited_sent, normal_sent, robot_states,
                   io_mutex, pc, loc, pausedSinceNormal, retained, lastUpdate, alarmed,
                   pausedByModule, thread_running, calm>>

\* rasterSafetyService, the second lock scope and the start of the monitor thread:
\* every robot's entry is created with the status read now, and the thread runs.
StartMonitor(status) ==
    /\ svc = "robots"
    /\ CanLock("svc")
    /\ robot_states' = [id \in Robots |-> NewRobotState(status[id])]
    /\ pc' = [pc EXCEPT !["mon"] = "sleep"]
    /\ obs' = NoObs
    /\ svc' = "serving"
    /\ thread_running' = TRUE
    /\ UNCHANGED <<io_list, configured_limited_speed, current_system_state,
                   limited_sent, normal_sent, file, io_mutex, loc, pausedSinceNormal,
                   retained, lastUpdate, alarmed, pausedByModule, calm>>

\* The process before rasterSafetyService ran: the table and the speed as they are
\* constructed, no robot entry, the monitor thread not created.
InitStart ==
    /\ io_list = [i \in IOIdx |-> DefaultIO]
    /\ configured_limited_speed = 30
    /\ current_system_state = "NORMAL"
    /\ limited_sent = FALSE
    /\ normal_sent = FALSE
    /\ robot_states = << >>
    /\ file \in StartFiles
    /\ io_mutex = "free"
    /\ pc = [t \in Threads |-> IF t = "mon" THEN "unborn" ELSE "idle"]
    /\ loc = [t \in Callers |-> Idle]
    /\ obs = NoObs
    /\ pausedSinceNormal = FALSE
    /\ retained = [id \in Robots |-> ""]
    /\ lastUpdate = NoUpdate
    /\ alarmed = {}
    /\ svc = "load"
    /\ pausedByModule = [id \in Robots |-> FALSE]
    /\ thread_running = TRUE
    /\ calm = [on |-> FALSE]

\* The service from its start; requests are dispatched once it serves.
NextStart ==
    \/ \E saved \in BOOLEAN : LoadConfig(saved)
    \/ \E status \in [Robots -> RunStatus] : StartMonitor(status)
    \/ Monitor
    \/ svc = "serving" /\ Command("c1")

SpecStart == InitStart /\ [][NextStart]_vars

\* -------------------------------------------------------- service stop
\* io_monitor_thread: the loop condition is false after a sleep, the thread returns.
MonExit ==
    /\ pc["mon"] = "sleep"
    /\ ~LoopCondition
    /\ pc' = [pc EXCEPT !["mon"] = "exited"]
    /\ UNCHANGED <<io_list, configured_limited_speed, current_system_state,
                   limited_sent, normal_sent, robot_states, file, io_mutex, loc, obs,
                   pausedSinceNormal, retained, lastUpdate, alarmed, svc,
                   pausedByModule, thread_running, calm>>

\* stopRasterSafetyService: thread_running is set to false, then the join begins.
StopService ==
    /\ svc = "serving"
    /\ thread_running' = FALSE
    /\ svc' = "join"
    /\ UNCHANGED <<io_list, configured_limited_speed, current_system_state,
                   limited_sent, normal_sent, robot_states, file, io_mutex, pc, loc,
                   obs, pausedSinceNormal, retained, lastUpdate, alarmed,
                   pausedByModule, calm>>

\* stopRasterSafetyService: monitor_thread->join() returns once the thread function
\* has returned.
JoinMonitor ==
    /\ svc = "join"
    /\ pc["mon"] = "exited"
    /\ svc' = "stopped"
    /\ UNCHANGED <<io_list, configured_limited_speed, current_system_state,
                   limited_sent, normal_sent, robot_states, file, io_mutex, pc, loc,
                   obs, pausedSinceNormal, retained, lastUpdate, alarmed,
                   pausedByModule, thread_running, calm>>

\* The service from its start to its stop, with no request dispatched.
NextStop ==
    \/ \E saved \in BOOLEAN : LoadConfig(saved)
    \/ \E status \in [Robots -> RunStatus] : StartMonitor(status)
    \/ Monitor
    \/ MonExit
    \/ StopService
    \/ JoinMonitor

\* The monitor thread and the joining thread keep running: every external call
\* returns and a thread that can take its next step takes it.
SpecStop ==
    /\ InitStart
    /\ [][NextStop]_vars
    /\ WF_vars(Monitor)
    /\ WF_vars(MonExit)
    /\ WF_vars(JoinMonitor)

\* ------------------------------------------------------ inputs at rest
\* With the inputs at the levels lv no configured entry of list is in alarm and the
\* reset condition of every latched entry holds; an input the table does not use is
\* taken at level FALSE.
AtRest(list, lv) ==
    /\ \A i \in IOIdx :
          list[i].is_configured =>
              /\ ~MeetsTrigger(list[i], read_io(list[i].io_index, lv[list[i].io_index]))
              /\ (list[i].already_triggered /\ list[i].reset_io_index > 0) =>
                     read_io(list[i].reset_io_index, lv[list[i].reset_io_index])
    /\ \A k \in IOIdx :
          lv[k] => \E i \in IOIdx :
                      /\ list[i].is_configured
                      /\ k \in {list[i].io_index, list[i].reset_io_index}

\* The reads of a cycle are the levels the inputs have while they are at rest.
ReadsFit(tv, rv) ==
    calm.on =>
        /\ \A i \in DOMAIN tv : tv[i] = calm.levels[io_list[i].io_index]
        /\ \A i \in DOMAIN rv : rv[i] = calm.levels[io_list[i].reset_io_index]

\* The environment: from now on the inputs keep the levels lv.
ComeToRest(lv) ==
    /\ ~calm.on
    /\ svc = "serving"
    /\ AtRest(io_list, lv)
    /\ calm' = [on |-> TRUE, levels |-> lv]
    /\ UNCHANGED <<io_list, configured_limited_speed, current_system_state,
                   limited_sent, normal_sent, robot_states, file, io_mutex, pc, loc,
                   obs, pausedSinceNormal, retained, lastUpdate, alarmed, svc,
                   pausedByModule, thread_running>>

\* The monitor thread, reading the levels of the inputs at rest once they are.
MonitorAtRest ==
    \/ \E tv \in [Configured -> BOOLEAN] :
          \E rv \in [ResetRead(io_list, tv) -> BOOLEAN] :
              ReadsFit(tv, rv) /\ MonSample(tv, rv)
    \/ \E rds \in [Robots -> PauseReads] : MonPause(rds)
    \/ \E rds \in [Robots -> ResumeReads] : MonResume(rds)
    \/ \E status \in [Robots -> RunStatus] : MonFinish(status)

\* The service from its start, with no request dispatched and inputs that come to
\* rest at some moment.
NextRest ==
    \/ \E saved \in BOOLEAN : LoadConfig(saved)
    \/ \E status \in [Robots -> RunStatus] : StartMonitor(status)
    \/ MonitorAtRest
    \/ \E lv \in [IOIdx -> BOOLEAN] : ComeToRest(lv)

\* The monitor thread keeps running: every external call returns and the thread
\* takes its next step.
SpecRest ==
    /\ InitStart
    /\ [][NextRest]_vars
    /\ WF_vars(MonitorAtRest)

\* ------------------------------------------------------ shutdown signal
\* handle_shutdown_signal: thread_running is set to false, with no lock taken.  The
\* handler is installed before the first lock scope of rasterSafetyService, so the
\* signal can arrive at any position of the service thread from there on.
ShutdownSignal ==
    /\ svc \in {"load", "robots", "serving"}
    /\ thread_running' = FALSE
    /\ UNCHANGED <<io_list, configured_limited_speed, current_system_state,
                   limited_sent, normal_sent, robot_states, file, io_mutex, pc, loc,
                   obs, pausedSinceNormal, retained, lastUpdate, alarmed, svc,
                   pausedByModule, calm>>

\* rasterSafetyService, the main loop: while (thread_running) sleep; the function
\* returns when the flag is false.
ServiceExit ==
    /\ svc = "serving"
    /\ ~thread_running
    /\ svc' = "returned"
    /\ UNCHANGED <<io_list, configured_limited_speed, current_system_state,
                   limited_sent, normal_sent, robot_states, file, io_mutex, pc, loc,
                   obs, pausedSinceNormal, retained, lastUpdate, alarmed,
                   pausedByModule, thread_running, calm>>

\* The service from its start, with no request dispatched and a shutdown signal
\* that can arrive at any moment.
NextSignal ==
    \/ \E saved \in BOOLEAN : LoadConfig(saved)
    \/ \E status \in [Robots -> RunStatus] : StartMonitor(status)
    \/ Monitor
    \/ MonExit
    \/ ShutdownSignal
    \/ ServiceExit

\* The service thread and the monitor thread keep running; the arrival of a signal
\* is left to the environment.
SpecSignal ==
    /\ InitStart
    /\ [][NextSignal]_vars
    /\ WF_vars(\E saved \in BOOLEAN : LoadConfig(saved))
    /\ WF_vars(\E status \in [Robots -> RunStatus] : StartMonitor(status))
    /\ WF_vars(Monitor)
    /\ WF_vars(MonExit)
    /\ WF_vars(ServiceExit)

\* ------------------------------------------------- fair lock scheduling
\* The requests of the runs under fair scheduling: one update_config request, with a
\* valid speed, whose save succeeds or fails.
FairRequest == << Item(1, 0, 1, "a") >>

\* The steps by which thread t starts a command.
Begin(t) ==
    \/ \E saved \in BOOLEAN : UpdateConfig(t, FairRequest, 40, saved)
    \/ \E sv \in [Configured -> BOOLEAN] : ResetSample(t, sv)
    \/ GetSpeed(t)

\* The steps by which thread t goes on with the command it has started, up to the
\* response: the rest of its critical section, its later acquisitions of the lock
\* and the send of the response.
Continue(t) ==
    \/ UpdateReturn(t)
    \/ \E rds \in [Robots -> ResumeReads] : ResetResume(t, rds)
    \/ ResetNothing(t)
    \/ \E lv \in [Configured -> BOOLEAN] : ResetRelatch(t, lv)
    \/ ResetReturn(t)
    \/ ResetRespond(t)
    \/ GetTriggered(t)
    \/ GetList(t)
    \/ GetRespond(t)

\* The monitor thread and one request-dispatch thread running all three commands.
NextFair == Monitor \/ Begin("c1") \/ Continue("c1")

\* Every external call returns, and the lock is scheduled fairly: a thread that can
\* take the lock again and again eventually takes it.  When a request arrives is
\* left to the environment.
SpecFair ==
    /\ Init
    /\ [][NextFair]_vars
    /\ SF_vars(Monitor)
    /\ SF_vars(Continue("c1"))

\* ------------------------------------------- self-referential entries
\* A table with two entries whose reset input is their own input: entry 1 with
\* trigger level 1 and entry 2 with trigger level 0.
SelfList ==
    ApplyConfig([i \in IOIdx |-> DefaultIO],
                ParseConfigData(<< Item(1, 1, 1, "a"), Item(2, 2, 0, "b") >>))

\* The state after the service started with a configuration file that holds the
\* two self-referential entries.
InitSelf ==
    /\ io_list = SelfList
    /\ configured_limited_speed = 30
    /\ current_system_state = "NORMAL"
    /\ limited_sent = FALSE
    /\ normal_sent = FALSE
    /\ robot_states \in {[id \in Robots |-> NewRobotState(st[id])] :
                            st \in [Robots -> RunStatus]}
    /\ file = FileOf(SelfList, 30)
    /\ io_mutex = "free"
    /\ pc = [t \in Threads |-> IF t = "mon" THEN "sleep" ELSE "idle"]
    /\ loc = [t \in Callers |-> Idle]
    /\ obs = NoObs
    /\ pausedSinceNormal = FALSE
    /\ retained = [id \in Robots |-> ""]
    /\ lastUpdate = NoUpdate
    /\ alarmed = {}
    /\ svc = "serving"
    /\ pausedByModule = [id \in Robots |-> FALSE]
    /\ thread_running = TRUE
    /\ calm = [on |-> FALSE]

\* The monitor thread and one request-dispatch thread, from that state.
SpecSelf == InitSelf /\ [][Next]_vars

\* --------------------------------------------- pause_robots run twice
\* Every value a robot's entry can hold between two operations: the two flags are
\* never both set, and a job name is never kept with message_sent_recovered set.
RobotStateValues ==
    {r \in [current_run_status : RunStatus, last_job_name : JobReads,
            message_sent_limited : BOOLEAN, message_sent_recovered : BOOLEAN] :
        /\ ~(r.message_sent_limited /\ r.message_sent_recovered)
        /\ ~(r.message_sent_recovered /\ r.last_job_name # "")}

\* The registry with entry 1 configured (trigger level 1, no reset input) and latched.
LatchedList ==
    LET list == ApplyConfig([i \in IOIdx |-> DefaultIO], <<Item(1, 0, 1, "a")>>)
    IN [list EXCEPT ![1].already_triggered = TRUE, ![1].trigger_time = NowStamp]

\* The monitor has latched entry 1, stored LIMITED and is about to run pause_robots.
InitPause ==
    /\ io_list = LatchedList
    /\ configured_limited_speed = 30
    /\ current_system_state = "LIMITED"
    /\ limited_sent = TRUE
    /\ normal_sent = FALSE
    /\ robot_states \in [Robots -> RobotStateValues]
    /\ file = FileOf(LatchedList, 30)
    /\ io_mutex = "mon"
    /\ pc = [t \in Threads |-> IF t = "mon" THEN "pause1" ELSE "idle"]
    /\ loc = [t \in Callers |-> Idle]
    /\ obs = NoObs
    /\ pausedSinceNormal = FALSE
    /\ retained = [id \in Robots |-> ""]
    /\ lastUpdate = NoUpdate
    /\ alarmed = {}
    /\ svc = "serving"
    /\ pausedByModule = [id \in Robots |-> robot_states[id].last_job_name # ""]
    /\ thread_running = TRUE
    /\ calm = [on |-> FALSE]

\* The run status a robot is left in by a pass of pause_robots that read rd.
ModeAfter(rd) == IF "new" \in DOMAIN rd THEN rd.new ELSE rd.pre

\* What a second pass reads from a robot whose mode and open job did not change
\* since the first pass read rd: a pause command has the effect it had before.
SameWorldReads(rd) ==
    IF ModeAfter(rd) = 2
    THEN [pre |-> 2, job |-> rd.job, new |-> 2]
    ELSE [pre |-> ModeAfter(rd)]

\* pause_robots, first run.
PauseFirst(rds) ==
    /\ pc["mon"] = "pause1"
    /\ LET r == pause_robots(robot_states, rds)
       IN /\ robot_states' = r.rs
          /\ obs' = [op |-> "pause_twice", before |-> robot_states, rds |-> rds,
                     first |-> r.rs,
                     reports1 |-> r.reports, reports2 |-> <<>>]
    /\ pausedByModule' = PausedAfterPause(rds)
    /\ pc' = [pc EXCEPT !["mon"] = "pause2"]
    /\ UNCHANGED <<io_list, configured_limited_speed, current_system_state,
                   limited_sent, normal_sent, file, io_mutex, loc, pausedSinceNormal,
                   retained, lastUpdate, alarmed, svc, thread_running, calm>>

\* pause_robots, second run, the robots being as the first run left them.
PauseSecond ==
    /\ pc["mon"] = "pause2"
    /\ LET r == pause_robots(robot_states,
                             [id \in Robots |-> SameWorldReads(obs.rds[id])])
       IN /\ robot_states' = r.rs
          /\ obs' = [obs EXCEPT !.reports2 = r.reports]
    /\ pausedByModule' =
           PausedAfterPause([id \in Robots |-> SameWorldReads(obs.rds[id])])
    /\ pc' = [pc EXCEPT !["mon"] = "paused"]
    /\ UNCHANGED <<io_list, configured_limited_speed, current_system_state,
                   limited_sent, normal_sent, file, io_mutex, loc, pausedSinceNormal,
                   retained, lastUpdate, alarmed, svc, thread_running, calm>>

NextPause ==
    \/ \E rds \in [Robots -> PauseReads] : PauseFirst(rds)
    \/ PauseSecond

SpecPause == InitPause /\ [][NextPause]_vars

\* ------------------------------------------------------------ properties
Range(seq) == {seq[k] : k \in 1..Len(seq)}

\* The thread is inside a section it runs with io_mutex held.
InCritical(t) == pc[t] \in {"act", "refresh", "uc_ret", "rs_chk", "rs_ret"}

\* C1: when a cycle of the monitor ends (the lock is about to be released), the
\* system state is LIMITED exactly when some configured entry is latched.
C1_StateMatchesLatches ==
    pc["mon"] = "refresh" =>
        (current_system_state = "LIMITED" <=> AnyTriggered(io_list))

\* C1 witness: a cycle that found LIMITED with no latch left (after update_config)
\* and ended in NORMAL.
C1_Witness ==
    /\ pc["mon"] = "refresh"
    /\ obs.previous = "LIMITED"
    /\ obs.was = {}
    /\ Configured # {}
    /\ current_system_state = "NORMAL"

\* C2 (as claimed): whenever the lock is free and the system state is LIMITED,
\* pause_robots has run since the state was last NORMAL.
C2_PauseAppliedWhenLimited ==
    (io_mutex = "free" /\ current_system_state = "LIMITED") => pausedSinceNormal

\* Every read resetSpeed made of entry i found it in alarm, and it made one.
InAlarmThroughout(i) ==
    /\ i \in DOMAIN obs.sread => MeetsTrigger(io_list[i], obs.sread[i])
    /\ "lread" \in DOMAIN obs => MeetsTrigger(io_list[i], obs.lread[i])
    /\ i \in DOMAIN obs.sread \/ "lread" \in DOMAIN obs

\* C3: a configured entry without reset input that every read of resetSpeed finds
\* in alarm makes resetSpeed return false with that entry latched, the system
\* state LIMITED and no resume sequence run.
C3_ResetRace ==
    \A t \in Callers :
        pc[t] = "rs_ret" =>
            \A i \in Configured :
                (io_list[i].reset_io_index = 0 /\ InAlarmThroughout(i)) =>
                    /\ loc[t].ret = FALSE
                    /\ io_list[i].already_triggered
                    /\ current_system_state = "LIMITED"
                    /\ obs.calls = <<>>
                    /\ obs.cmds = <<>>

\* C3 witness: resetSpeed about to return false for an entry that was latched at
\* entry and was read in alarm at the sample and at the re-latch.
C3_Witness ==
    /\ pc["c1"] = "rs_ret"
    /\ \E i \in Configured :
          /\ io_list[i].reset_io_index = 0
          /\ i \in obs.was
          /\ i \in DOMAIN obs.sread
          /\ InAlarmThroughout(i)
          /\ io_list[i].already_triggered
    /\ loc["c1"].ret = FALSE

\* C4 (as claimed): whenever resetSpeed returns false, the system state is LIMITED
\* and some configured entry is latched.
C4_FailureLeavesLatch ==
    \A t \in Callers :
        (pc[t] = "rs_ret" /\ loc[t].ret = FALSE) =>
            (current_system_state = "LIMITED" /\ AnyTriggered(io_list))

\* The sample of resetSpeed read every configured entry and found none in alarm.
SampleFoundNone ==
    \A i \in Configured :
        i \in DOMAIN obs.sread /\ ~MeetsTrigger(io_list[i], obs.sread[i])

\* C5: when the sample of resetSpeed finds no configured entry in alarm, resetSpeed
\* returns true, no entry is latched, the system state is NORMAL, and resume_robots
\* ran exactly once if the state was LIMITED at entry and not at all otherwise.
C5_ResetSuccess ==
    \A t \in Callers :
        (pc[t] = "rs_ret" /\ SampleFoundNone) =>
            /\ loc[t].ret = TRUE
            /\ ~AnyTriggered(io_list)
            /\ current_system_state = "NORMAL"
            /\ obs.calls = IF loc[t].was_limited THEN <<"resume">> ELSE <<>>

\* C5 witness: resetSpeed about to return true after it cleared a latch, moved the
\* state from LIMITED to NORMAL and ran resume_robots.
C5_Witness ==
    /\ pc["c1"] = "rs_ret"
    /\ SampleFoundNone
    /\ obs.was # {}
    /\ loc["c1"].was_limited
    /\ loc["c1"].ret = TRUE
    /\ obs.calls = <<"resume">>

\* C6: the sections run with the lock held never overlap: a thread inside one
\* holds the lock and no other thread is inside one; in particular nothing runs
\* between the store of a new system state and the end of pause/resume.
C6_Serialized ==
    \A t \in Threads :
        InCritical(t) => (io_mutex = t /\ \A u \in Threads \ {t} : ~InCritical(u))

\* C6 witness: the monitor has stored LIMITED and not yet run pause_robots while
\* both callers are in the middle of a command, waiting for the lock.
C6_Witness ==
    /\ pc["mon"] = "act"
    /\ obs.required = "LIMITED"
    /\ pc["c1"] = "rs_speed"
    /\ pc["c2"] = "rs_speed"

\* C7: in a cycle that finds a latched entry with a reset input at its safe level,
\* the reset input is read; the entry stays latched and the state LIMITED when it
\* reads false, and the latch is cleared when it reads true.
C7_Debounce ==
    pc["mon"] \in {"act", "refresh"} =>
        \A i \in Configured :
            (/\ i \in obs.was
             /\ io_list[i].reset_io_index > 0
             /\ ~MeetsTrigger(io_list[i], obs.tread[i])) =>
                /\ i \in DOMAIN obs.rread
                /\ ~obs.rread[i] =>
                       (io_list[i].already_triggered /\ current_system_state = "LIMITED")
                /\ obs.rread[i] => ~io_list[i].already_triggered

\* C7 witness: a cycle in which the trigger input is safe, the reset input reads
\* false and the entry is still latched.
C7_Witness ==
    /\ pc["mon"] = "refresh"
    /\ \E i \in Configured :
          /\ i \in obs.was
          /\ io_list[i].reset_io_index > 0
          /\ ~MeetsTrigger(io_list[i], obs.tread[i])
          /\ ~obs.rread[i]
          /\ io_list[i].already_triggered

\* The reports of a pass that are not failure reports.
Routine(reports) == {r \in Range(reports) : r[1] # 3}

\* C8 (as claimed): a second run of pause_robots, the robots being as the first run
\* left them, leaves every robot's entry as the first run left it and emits no
\* routine notification.
C8_PauseIdempotent ==
    pc["mon"] = "paused" =>
        (robot_states = obs.first /\ Routine(obs.reports2) = {})

\* C9: a pause attempt not confirmed after the wait reports "pause_failed" at
\* level 3, and a resume attempt not confirmed reports "resume_failed" at level 3,
\* whatever the notification flags are.
C9_FailureAlwaysReported ==
    "att" \in DOMAIN obs =>
        \A id \in Robots :
            obs.att[id] = "fail" =>
                (IF obs.calls = <<"pause">>
                 THEN <<3, "pause_failed", id>>
                 ELSE <<3, "resume_failed", id>>) \in Range(obs.reports)

\* C9 witness: a failed pause attempt on a robot whose message_sent_limited flag
\* was set, reported all the same.
C9_Witness ==
    /\ "att" \in DOMAIN obs
    /\ obs.calls = <<"pause">>
    /\ \E id \in Robots :
          /\ obs.att[id] = "fail"
          /\ robot_states[id].message_sent_limited
          /\ <<3, "pause_failed", id>> \in Range(obs.reports)

\* C10 (as claimed): when pause_robots is about to run at a change to LIMITED no
\* robot has message_sent_limited set, and when resume_robots is about to run at a
\* change to NORMAL (in the monitor or in resetSpeed) no robot has
\* message_sent_recovered set.
C10_FlagsFreshAtSequenceStart ==
    /\ (pc["mon"] = "act" /\ obs.required = "LIMITED") =>
           \A id \in Robots : ~robot_states[id].message_sent_limited
    /\ (pc["mon"] = "act" /\ obs.required = "NORMAL") =>
           \A id \in Robots : ~robot_states[id].message_sent_recovered
    /\ \A t \in Callers :
           (/\ pc[t] = "rs_chk"
            /\ ~loc[t].any_io_currently_meets_trigger
            /\ loc[t].was_limited) =>
               \A id \in Robots : ~robot_states[id].message_sent_recovered

\* C11: in every state, no robot has message_sent_limited and
\* message_sent_recovered both set.
C11_FlagsExclusive ==
    \A id \in Robots :
        ~(robot_states[id].message_sent_limited /\ robot_states[id].message_sent_recovered)

\* C11 witness: resume_robots, run by resetSpeed, has set message_sent_recovered on
\* a robot that entered it with message_sent_limited set.
C11_Witness ==
    /\ pc["c1"] = "rs_ret"
    /\ obs.calls = <<"resume">>
    /\ \E id \in Robots :
          /\ obs.before[id].message_sent_limited
          /\ robot_states[id].message_sent_recovered
          /\ ~robot_states[id].message_sent_limited

\* C12 (as claimed): a resume attempt that fails leaves the job name recorded, and
\* at the next resume sequence a robot that was read paused ever since is sent the
\* resume command for that job again.
C12_ResumeRetried ==
    ("owed" \in DOMAIN obs) =>
        \A id \in Robots :
            /\ obs.att[id] = "fail" =>
                   /\ robot_states[id].last_job_name # ""
                   /\ <<"resume", id, robot_states[id].last_job_name>> \in Range(obs.cmds)
            /\ (obs.owed[id] # "" /\ obs.pre[id] = 1) =>
                   <<"resume", id, obs.owed[id]>> \in Range(obs.cmds)

\* C13 (as claimed): resetSpeed, run with the state NORMAL while no configured input
\* is in alarm, sends the resume command for the job a failed resume left recorded
\* on a robot that is still paused.
C13_ResetRedrivesResume ==
    \A t \in Callers :
        (pc[t] = "rs_ret" /\ SampleFoundNone /\ ~loc[t].was_limited) =>
            \A id \in Robots :
                retained[id] # "" =>
                    <<"resume", id, retained[id]>> \in Range(obs.cmds)

\* The request meets the conditions of the round trip: distinct in-range indices,
\* in-range reset indices, trigger values 0 or 1.
ValidRequest(req) ==
    /\ \A k \in 1..Len(req) :
          /\ req[k].io_index \in IOIdx
          /\ req[k].reset_io_index \in IOIdx
          /\ req[k].trigger_value \in {0, 1}
    /\ \A k, l \in 1..Len(req) : req[k].io_index = req[l].io_index => k = l

\* The entries of a get_config response without their is_triggered field.
EntriesOf(config_data) ==
    {[io_index |-> e.io_index, reset_io_index |-> e.reset_io_index,
      trigger_value |-> e.trigger_value, description |-> e.description] :
         e \in config_data}

\* The response of the get_config that follows the accepted update_config request
\* lastUpdate (no reset_speed in between) has the entries and the speed of that
\* request.
RoundTripEntries(t) ==
    /\ EntriesOf(loc[t].response.config_data) = Range(lastUpdate.req)
    /\ loc[t].response.limited_speed = lastUpdate.limited_speed

\* C14 (as claimed): get_config after update_config(cfg), cfg valid, returns the
\* entries and the speed of cfg, with is_triggered false for every entry.
C14_RoundTrip ==
    \A t \in Callers :
        (pc[t] = "gc_resp" /\ lastUpdate.op = "update" /\ ValidRequest(lastUpdate.req)) =>
            /\ RoundTripEntries(t)
            /\ \A e \in loc[t].response.config_data : ~e.is_triggered

\* C14 (amended): get_config after update_config(cfg), cfg valid, returns the entries
\* and the speed of cfg; is_triggered is false for every entry when no cycle of the
\* monitor ran since the update.
C14_RoundTripQuiet ==
    \A t \in Callers :
        (pc[t] = "gc_resp" /\ lastUpdate.op = "update" /\ ValidRequest(lastUpdate.req)) =>
            /\ RoundTripEntries(t)
            /\ lastUpdate.quiet =>
                   \A e \in loc[t].response.config_data : ~e.is_triggered

\* C14 witness: the response to get_config after an undisturbed update_config of
\* two entries, one of them with trigger value 0.
C14_Witness ==
    /\ pc["c1"] = "gc_resp"
    /\ lastUpdate.op = "update"
    /\ lastUpdate.quiet
    /\ ValidRequest(lastUpdate.req)
    /\ Len(lastUpdate.req) = 2
    /\ Cardinality(loc["c1"].response.config_data) = 2

\* C15: an update_config whose limited_speed is out of range returns false and
\* leaves the table, the speed, the system state, the robots' entries and the file
\* as they were, so that get_config returns what it returned before.
C15_RejectedUpdateChangesNothing ==
    [][\A t \in Callers :
          (pc[t] = "idle" /\ pc'[t] = "uc_ret"
              /\ (obs'.limited_speed < 0 \/ obs'.limited_speed > 100)) =>
             /\ loc'[t].ret = FALSE
             /\ UNCHANGED <<io_list, configured_limited_speed, current_system_state,
                            robot_states, file>>
             /\ ConfigData(io_list', getTriggeredIOStates(io_list'))
                    = ConfigData(io_list, getTriggeredIOStates(io_list))]_vars

\* C15 witness: update_config with speed 101 and a non-empty request has returned
\* false while an entry of the table is latched.
C15_Witness ==
    /\ pc["c1"] = "uc_ret"
    /\ obs.limited_speed = 101
    /\ obs.req # <<>>
    /\ loc["c1"].ret = FALSE
    /\ AnyTriggered(io_list)

\* C16: when update_config has a valid speed and returns false (the save failed),
\* the table holds the entries of the request and the speed is the requested one;
\* a cycle of the monitor reads exactly the entries the table holds.
C16_SaveFailureKeepsMemory ==
    /\ \A t \in Callers :
          (pc[t] = "uc_ret" /\ obs.limited_speed \in 0..100 /\ ~loc[t].ret) =>
              /\ configured_limited_speed = obs.limited_speed
              /\ ValidRequest(obs.req) =>
                     EntriesOf(ConfigData(io_list, {})) = Range(obs.req)
    /\ obs.op = "cycle" => DOMAIN obs.tread = Configured

\* C16 witness: update_config of two entries with a valid speed has returned false
\* and the file does not hold the new configuration.
C16_Witness ==
    /\ pc["c1"] = "uc_ret"
    /\ obs.limited_speed \in 0..100
    /\ ~loc["c1"].ret
    /\ Len(obs.req) = 2
    /\ Cardinality(Configured) = 2
    /\ file # FileOf(io_list, configured_limited_speed)

\* C17: when update_config with a valid speed returns, no entry of the table is
\* latched and every trigger_time is 0.
C17_UpdateClearsLatches ==
    \A t \in Callers :
        (pc[t] = "uc_ret" /\ obs.limited_speed \in 0..100) =>
            \A i \in IOIdx : ~io_list[i].already_triggered /\ io_list[i].trigger_time = 0

\* C17 witness: update_config has configured again an entry that was latched before.
C17_Witness ==
    /\ pc["c1"] = "uc_ret"
    /\ obs.limited_speed \in 0..100
    /\ \E i \in obs.was : io_list[i].is_configured

\* The positions of a caller inside update_config or get_config.
ConfigPositions == {"uc_ret", "gc_trig", "gc_list", "gc_resp"}

\* C18: no step of update_config or get_config changes the system state or a
\* robot's entry, and none issues a pause or resume command.
C18_ConfigCommandsFrame ==
    [][(\E t \in Callers :
           pc'[t] # pc[t] /\ (pc[t] \in ConfigPositions \/ pc'[t] \in ConfigPositions)) =>
          /\ UNCHANGED <<current_system_state, robot_states>>
          /\ obs' = obs \/ obs' = NoObs \/ obs'.op = "update"]_vars

\* C18 witness: update_config has cleared every latch while the system state is
\* LIMITED, and the state is still LIMITED.
C18_Witness ==
    /\ pc["c1"] = "uc_ret"
    /\ obs.limited_speed \in 0..100
    /\ obs.was # {}
    /\ ~AnyTriggered(io_list)
    /\ current_system_state = "LIMITED"

\* C19 (as claimed): the first cycle of the monitor after an update_config made
\* with the state LIMITED ends with the state NORMAL and resume_robots run once when
\* it reads no configured entry in alarm, and with the state LIMITED and neither
\* sequence run when it reads one in alarm.
C19_RecoveryLeftToMonitor ==
    (pc["mon"] = "refresh" /\ obs.after_update # "no") =>
        IF \E i \in Configured : MeetsTrigger(io_list[i], obs.tread[i])
        THEN current_system_state = "LIMITED" /\ obs.calls = <<>>
        ELSE current_system_state = "NORMAL" /\ obs.calls = <<"resume">>

\* C19 (amended): the same, for the cycles that no reset_speed preceded since the
\* update_config.
C19_RecoveryWithoutReset ==
    (pc["mon"] = "refresh" /\ obs.after_update = "clean") =>
        IF \E i \in Configured : MeetsTrigger(io_list[i], obs.tread[i])
        THEN current_system_state = "LIMITED" /\ obs.calls = <<>>
        ELSE current_system_state = "NORMAL" /\ obs.calls = <<"resume">>

\* C19 witness: such a cycle over a non-empty table, ended in NORMAL with
\* resume_robots run.
C19_Witness ==
    /\ pc["mon"] = "refresh"
    /\ obs.after_update = "clean"
    /\ obs.previous = "LIMITED"
    /\ Configured # {}
    /\ current_system_state = "NORMAL"
    /\ obs.calls = <<"resume">>

\* C20 (as claimed): the speed of a get_config response is the speed of the table
\* state its entries were read from, and an entry is reported is_triggered only if
\* it is latched in that state.
C20_GetConfigSnapshot ==
    \A t \in Callers :
        pc[t] = "gc_resp" =>
            /\ loc[t].response.limited_speed = loc[t].list_speed
            /\ \A e \in loc[t].response.config_data :
                   e.is_triggered => e.io_index \in loc[t].list_latched

\* C21: in every state, a configured entry that is latched was read in alarm at some
\* earlier sample, and no cycle of the monitor since the last such sample read it safe
\* with its reset condition met (its reset input read true, or no reset input).
C21_LatchHasCause ==
    \A i \in Configured : io_list[i].already_triggered => i \in alarmed

\* C21 witness: a cycle has left latched an entry with a reset input that it read safe
\* with the reset input false, while clearing nothing else.
C21_Witness ==
    /\ pc["mon"] = "refresh"
    /\ \E i \in Configured :
          /\ io_list[i].already_triggered
          /\ io_list[i].reset_io_index > 0
          /\ ~MeetsTrigger(io_list[i], obs.tread[i])
          /\ i \in DOMAIN obs.rread /\ ~obs.rread[i]
          /\ i \in alarmed

\* C22: in every state, an entry of the table that is latched is configured.
C22_LatchedIsConfigured ==
    \A i \in IOIdx : io_list[i].already_triggered => io_list[i].is_configured

\* C22 witness: update_config has left unconfigured a slot that was configured and
\* latched before it.
C22_Witness ==
    /\ pc["c1"] = "uc_ret"
    /\ SpeedValid(obs.limited_speed)
    /\ \E i \in obs.was : ~io_list[i].is_configured /\ ~io_list[i].already_triggered

\* The table holds idx configured, with the reset index given for it, or 0 when that
\* reset index is out of range.
StoredAs(idx, reset) ==
    /\ io_list[idx].is_configured
    /\ io_list[idx].reset_io_index = (IF reset \in IOIdx THEN reset ELSE 0)

\* C23: in every state, a configured entry at position i has io_index i, a reset
\* index in range and a trigger value 0 or 1; when update_config was accepted, or the
\* file was loaded at the start, the configured entries are the submitted items with
\* an io_index in range, and an item with an out-of-range reset index is stored with
\* reset index 0.
C23_EntriesWellFormed ==
    /\ \A i \in Configured :
          /\ io_list[i].io_index = i
          /\ io_list[i].reset_io_index \in IOIdx
          /\ io_list[i].trigger_value \in {0, 1}
    /\ \A t \in Callers :
          (pc[t] = "uc_ret" /\ SpeedValid(obs.limited_speed)) =>
              /\ Configured = {obs.req[k].io_index : k \in 1..Len(obs.req)} \cap IOIdx
              /\ \A k \in 1..Len(obs.req) :
                     (/\ obs.req[k].io_index \in IOIdx
                      /\ \A l \in (k + 1)..Len(obs.req) :
                             obs.req[l].io_index # obs.req[k].io_index) =>
                         StoredAs(obs.req[k].io_index, obs.req[k].reset_io_index)
    /\ (svc = "robots" /\ "io_config" \in DOMAIN obs.file) =>
          /\ Configured = {item.io_index : item \in obs.file.io_config} \cap IOIdx
          /\ \A item \in obs.file.io_config :
                 item.io_index \in IOIdx => StoredAs(item.io_index, item.reset_io_index)

\* C23 witness: update_config was given an item with an out-of-range io_index and an
\* item with an out-of-range reset index, and the latter is stored with reset index 0.
C23_Witness ==
    /\ pc["c1"] = "uc_ret"
    /\ SpeedValid(obs.limited_speed)
    /\ \E k \in 1..Len(obs.req) : obs.req[k].io_index \notin IOIdx
    /\ \E k \in 1..Len(obs.req) :
          /\ obs.req[k].io_index \in IOIdx
          /\ obs.req[k].reset_io_index \notin IOIdx
          /\ io_list[obs.req[k].io_index].is_configured
          /\ io_list[obs.req[k].io_index].reset_io_index = 0

\* C24: whenever the lock is free, a robot has a job name recorded only if the last
\* pause sequence found it running and confirmed it paused and no resume sequence
\* confirmed it running since; the name is empty for a robot that was not paused by
\* the module, whose pause failed, or whose resume completed.
C24_JobOnlyWhilePausedByModule ==
    io_mutex = "free" =>
        \A id \in DOMAIN robot_states :
            robot_states[id].last_job_name # "" => pausedByModule[id]

\* C24 witness: with the lock free, a robot keeps the job name of a pause that was
\* confirmed, after a resume attempt on it that was not confirmed.
C24_Witness ==
    /\ io_mutex = "free"
    /\ \E id \in Robots :
          /\ robot_states[id].last_job_name # ""
          /\ retained[id] = robot_states[id].last_job_name
          /\ pausedByModule[id]

\* C25: a pause sequence sends the pause command only to a robot it read running,
\* and a resume sequence sends the resume command only to a robot it read paused
\* that had a job name recorded, for that job; a robot read stopped, or read paused
\* with no job name recorded, is sent no command by either sequence.
C25_CommandsOnlyToEligible ==
    ("before" \in DOMAIN obs /\ "cmds" \in DOMAIN obs) =>
        \A id \in Robots :
            /\ \A c \in Range(obs.cmds) :
                   c[2] = id =>
                       IF obs.calls = <<"pause">>
                       THEN c[1] = "pause" /\ obs.pre[id] = 2
                       ELSE /\ c[1] = "resume"
                            /\ obs.pre[id] = 1
                            /\ obs.before[id].last_job_name # ""
                            /\ c[3] = obs.before[id].last_job_name
            /\ (obs.pre[id] = 0
                   \/ (obs.pre[id] = 1 /\ obs.before[id].last_job_name = "")) =>
                   \A c \in Range(obs.cmds) : c[2] # id

\* C25 witness: a resume sequence read a robot paused with no job name recorded and
\* sent it no command, after a pause sequence of the same LIMITED period had found it
\* not running.
C25_Witness ==
    /\ "before" \in DOMAIN obs
    /\ obs.calls = <<"resume">>
    /\ \E id \in Robots :
          /\ obs.pre[id] = 1
          /\ obs.before[id].last_job_name = ""
          /\ obs.before[id].message_sent_limited
          /\ obs.cmds = <<>>

\* What the pause_robots call that just returned read from the robots.
LastPauseReads ==
    IF pc["mon"] = "pause2" THEN obs.rds
    ELSE [id \in Robots |-> SameWorldReads(obs.rds[id])]

\* C26: after a call of pause_robots, the job name recorded for a robot is the name
\* read before the pause command when the robot was read running and then paused
\* after the wait, and is empty when the pause was not confirmed and when the robot
\* was read stopped or paused.
C26_JobAfterPause ==
    pc["mon"] \in {"pause2", "paused"} =>
        \A id \in Robots :
            LET rd == LastPauseReads[id] IN
            robot_states[id].last_job_name =
                IF rd.pre = 2 /\ rd.new = 1 THEN rd.job ELSE ""

\* C26 witness: pause_robots found already paused a robot that had a job name
\* recorded, and the name is now empty.
C26_Witness ==
    /\ pc["mon"] = "pause2"
    /\ \E id \in Robots :
          /\ obs.before[id].last_job_name # ""
          /\ obs.rds[id].pre = 1
          /\ robot_states[id].last_job_name = ""

\* C27: a cycle of the monitor whose required state is the current system state
\* calls neither pause_robots nor resume_robots, sends no command and no report,
\* and changes no notification flag and no job name, whatever latches it set or
\* cleared; its last step changes nothing of a robot's entry but the run status.
C27_NoActionWithoutTransition ==
    [][/\ (pc["mon"] = "sleep" /\ pc'["mon"] # "sleep"
              /\ obs'.previous = obs'.required) =>
             /\ pc'["mon"] = "refresh"
             /\ obs'.calls = <<>> /\ obs'.cmds = <<>> /\ obs'.reports = <<>>
             /\ UNCHANGED <<current_system_state, limited_sent, normal_sent,
                            robot_states>>
       /\ (pc["mon"] = "refresh" /\ pc'["mon"] = "sleep"
              /\ obs.previous = obs.required) =>
             /\ obs.calls = <<>> /\ obs.cmds = <<>> /\ obs.reports = <<>>
             /\ UNCHANGED <<current_system_state, limited_sent, normal_sent>>
             /\ \A id \in Robots :
                    robot_states'[id] =
                        [robot_states[id] EXCEPT
                            !.current_run_status = robot_states'[id].current_run_status]
      ]_vars

\* C27 witness: a cycle that found and left the state LIMITED while it cleared one
\* latch and kept another, with a robot that reads running (its pause failed or it
\* was started again) and is sent no command.
C27_Witness ==
    /\ pc["mon"] = "refresh"
    /\ obs.previous = "LIMITED"
    /\ obs.required = "LIMITED"
    /\ \E i \in obs.was : ~io_list[i].already_triggered
    /\ obs.calls = <<>>
    /\ \E id \in Robots : robot_states[id].current_run_status = 2

\* C28: once thread_running is false the monitor starts no cycle, and from then on
\* its thread ends (after the cycle in progress, if any) and the join of
\* stopRasterSafetyService returns.
C28_Cancellation ==
    /\ [][~thread_running =>
              ~(pc["mon"] = "sleep" /\ pc'["mon"] \in {"act", "refresh"})]_vars
    /\ ~thread_running ~> (pc["mon"] = "exited" /\ svc = "stopped")

\* C28 witness: thread_running was set to false while a cycle of the monitor was
\* about to run pause_robots, and the join is waiting.
C28_Witness ==
    /\ ~thread_running
    /\ svc = "join"
    /\ pc["mon"] = "act"
    /\ obs.required = "LIMITED"

\* The entry io after a cycle that read level for it and reads for the reset inputs,
\* by the reference: latched (stamped when it was not latched) when level is its
\* trigger level; else cleared when it was latched and has no reset input or its
\* reset input read true; else unchanged.
ReferenceUpdate(io, i, level, reads) ==
    IF level = (io.trigger_value = 1)
    THEN [io EXCEPT !.already_triggered = TRUE,
                    !.trigger_time = IF io.already_triggered THEN @ ELSE NowStamp]
    ELSE IF io.already_triggered
            /\ (io.reset_io_index = 0 \/ (i \in DOMAIN reads /\ reads[i]))
         THEN [io EXCEPT !.already_triggered = FALSE, !.trigger_time = 0]
         ELSE io

C30_RecoveryLiveness ==
    /\ (current_system_state = "LIMITED" /\ calm.on) ~>
           (/\ pc["mon"] = "refresh"
            /\ obs.previous = "LIMITED"
            /\ current_system_state = "NORMAL"
            /\ obs.calls = <<"resume">>)
    /\ [][(calm.on /\ current_system_state = "NORMAL") =>
              /\ current_system_state' = "NORMAL"
              /\ (pc["mon"] = "sleep" /\ pc'["mon"] # "sleep") =>
                     (pc'["mon"] = "refresh" /\ obs'.calls = <<>>)]_vars

\* C30 witness: with the inputs at rest, a cycle has cleared the latch of an entry
\* through its reset input, changed the state from LIMITED to NORMAL and run
\* resume_robots once.
C30_Witness ==
    /\ calm.on
    /\ pc["mon"] = "refresh"
    /\ obs.previous = "LIMITED"
    /\ current_system_state = "NORMAL"
    /\ obs.calls = <<"resume">>
    /\ \E i \in obs.was : io_list[i].reset_io_index > 0 /\ i \in DOMAIN obs.rread

\* A step of resetSpeed, run by t, on the path that returns false: the sample that
\* found an input in alarm, the alert and the re-latch, and the return.
FailingResetStep(t) ==
    \/ pc[t] = "idle" /\ pc'[t] = "rs_chk" /\ loc'[t].any_io_currently_meets_trigger
    \/ pc[t] = "rs_chk" /\ pc'[t] = "rs_ret" /\ loc'[t].ret = FALSE
    \/ pc[t] = "rs_ret" /\ pc'[t] = "rs_speed" /\ loc[t].ret = FALSE

\* C31: a resetSpeed that returns false sends no pause and no resume command and
\* leaves every field of every robot's entry as it was; it changes nothing but the
\* latches (with their time stamps) and the system state, and it emits one alert,
\* at level 2, that names an input its sample read in alarm.
C31_FailedResetFrame ==
    /\ [][\A t \in Callers :
             FailingResetStep(t) =>
                 /\ UNCHANGED <<robot_states, limited_sent, normal_sent,
                                configured_limited_speed, file>>
                 /\ \A i \in IOIdx :
                        io_list'[i] =
                            [io_list[i] EXCEPT
                                !.already_triggered = io_list'[i].already_triggered,
                                !.trigger_time = io_list'[i].trigger_time]]_vars
    /\ [](\A t \in Callers :
             (pc[t] = "rs_ret" /\ loc[t].ret = FALSE) =>
                 /\ obs.calls = <<>>
                 /\ obs.cmds = <<>>
                 /\ \E k \in DOMAIN obs.sread :
                        /\ MeetsTrigger(io_list[k], obs.sread[k])
                        /\ obs.reports =
                               << <<2, "still_triggered", io_list[k].io_index>> >>)

\* C31 witness: resetSpeed is about to return false, with the state LIMITED at its
\* entry, a latch cleared and set again, and a robot that is paused with a job name
\* recorded and was sent nothing.
C31_Witness ==
    /\ pc["c1"] = "rs_ret"
    /\ loc["c1"].ret = FALSE
    /\ loc["c1"].was_limited
    /\ \E i \in obs.was : io_list[i].already_triggered
    /\ \E k \in Configured : k \notin DOMAIN obs.sread
    /\ \E id \in Robots :
          /\ robot_states[id].current_run_status = 1
          /\ robot_states[id].last_job_name # ""
    /\ obs.cmds = <<>>

\* C32: whenever the lock is free and the system state is NORMAL, no configured
\* entry is latched, whichever operation released the lock last.
C32_NormalHasNoLatch ==
    (io_mutex = "free" /\ current_system_state = "NORMAL") => ~AnyTriggered(io_list)

\* C32 witness: resetSpeed has returned and released the lock after it stored NORMAL
\* itself (the alert of the LIMITED period is still marked as sent), over a table
\* with configured entries.
C32_Witness ==
    /\ io_mutex = "free"
    /\ current_system_state = "NORMAL"
    /\ pc["c1"] = "rs_speed"
    /\ limited_sent
    /\ Configured # {}
    /\ ~AnyTriggered(io_list)

\* The system-level report owed at a change of the system state to required.
SystemReport(required) ==
    IF required = "LIMITED" THEN <<1, "sys_limited", 0>> ELSE <<0, "sys_normal", 0>>

\* C33 (as claimed): a cycle of the monitor that changes the system state emits the
\* system-level report of the new state (the alert at a change to LIMITED, the
\* notice at a change to NORMAL) exactly once, whatever happened before.
C33_TransitionAlwaysAnnounced ==
    (pc["mon"] = "refresh" /\ obs.previous # obs.required) =>
        Cardinality({k \in 1..Len(obs.reports) :
                        obs.reports[k] = SystemReport(obs.required)}) = 1

\* The step runs resume_robots: in the monitor, or in resetSpeed run by a caller.
ResumeStep ==
    /\ "calls" \in DOMAIN obs /\ obs.calls = <<>>
    /\ "calls" \in DOMAIN obs' /\ obs'.calls = <<"resume">>

\* A pause sequence ran since the state was last NORMAL, seen from the state in
\* which a resume sequence is about to run.
PausedInThisPeriod ==
    IF obs.op = "cycle" THEN obs.paused ELSE pausedSinceNormal

\* C34 (as claimed): a robot that the pause sequence of the LIMITED period found
\* running and confirmed paused, and that the resume sequence of the following
\* change to NORMAL reads paused, is sent the resume command by that sequence and
\* is not reported as paused with no recorded job, whatever job name was read
\* before the pause.
C34_PausedByModuleIsResumed ==
    [][\A id \in Robots :
          (ResumeStep /\ PausedInThisPeriod /\ pausedByModule[id] /\ obs'.pre[id] = 1) =>
              /\ \E c \in Range(obs'.cmds) : c[1] = "resume" /\ c[2] = id
              /\ <<0, "needs_manual_resume", id>> \notin Range(obs'.reports)]_vars

\* C35 (as claimed): once a shutdown signal has set thread_running to false, at any
\* position of rasterSafetyService after the handlers are installed, the flag stays
\* false, and the main loop of the service and the loop of the monitor exit.
C35_ShutdownNeverLost ==
    /\ [][~thread_running => ~thread_running']_vars
    /\ ~thread_running ~> (svc = "returned" /\ pc["mon"] = "exited")

\* The positions from which the next step of a thread acquires io_mutex.
AcquirePositions == {"sleep", "idle", "rs_speed", "gc_trig", "gc_list"}

SelfReset(i) == io_list[i].is_configured /\ io_list[i].reset_io_index = i /\ i > 0

\* The step is the sample of a cycle of the monitor.
SampleStep == pc["mon"] = "sleep" /\ pc'["mon"] \in {"act", "refresh"}

\* The sample read the input of entry i once, or twice at the same level.
SteadyReads(i) == i \in DOMAIN obs'.rread => obs'.rread[i] = obs'.tread[i]

\* C37 (as claimed): a latched entry with its own input as reset input and trigger
\* level 1 is left latched, with the state LIMITED, by every cycle of the monitor,
\* whatever the input does; with trigger level 0 it is cleared by the first cycle
\* that reads its input safe.
C37_SelfReset ==
    [][\A i \in IOIdx :
          (SampleStep /\ SelfReset(i) /\ io_list[i].already_triggered) =>
              IF io_list[i].trigger_value = 1
              THEN io_list'[i].already_triggered /\ current_system_state' = "LIMITED"
              ELSE ~MeetsTrigger(io_list[i], obs'.tread[i]) =>
                       ~io_list'[i].already_triggered]_vars

\* C37 (amended): the same, for the cycles in which the input of the entry keeps its
\* level between the read of line 535 and the read of line 560.
C37_SelfResetSteadyReads ==
    [][\A i \in IOIdx :
          (SampleStep /\ SelfReset(i) /\ io_list[i].already_triggered /\ SteadyReads(i)) =>
              IF io_list[i].trigger_value = 1
              THEN io_list'[i].already_triggered /\ current_system_state' = "LIMITED"
              ELSE ~MeetsTrigger(io_list[i], obs'.tread[i]) =>
                       ~io_list'[i].already_triggered]_vars

\* C37 witness: a cycle read safe, twice at the same level, the input of the latched
\* entry with trigger level 1, which stays latched, and cleared the latch of the
\* entry with trigger level 0.
C37_Witness ==
    /\ pc["mon"] = "refresh"
    /\ \E i, j \in obs.was :
          /\ SelfReset(i) /\ io_list[i].trigger_value = 1
          /\ ~obs.tread[i] /\ i \in DOMAIN obs.rread /\ ~obs.rread[i]
          /\ io_list[i].already_triggered
          /\ SelfReset(j) /\ io_list[j].trigger_value = 0
          /\ obs.tread[j] /\ j \in DOMAIN obs.rread /\ obs.rread[j]
          /\ ~io_list[j].already_triggered
    /\ current_system_state = "LIMITED"

====
